---- MODULE Spec2Model ----
(***************************************************************************)
(* Model of pytradelib/bar.py: the Bar value object (construction with the *)
(* six OHLC ordering checks, accessors, derived adjusted prices, session   *)
(* metadata, equality, rendering) and the Bars collection (synchronised    *)
(* construction and lookups).                                              *)
(*                                                                         *)
(* Python's None is the empty sequence and any other optional value x is   *)
(* the one-element sequence <<x>>.  A datetime is <<year>>, so a date_time *)
(* is None or <<year>>.  A call is recorded in `call` with the exception   *)
(* it raised (NoException when it returned).  `debug` is the interpreter's *)
(* __debug__: FALSE under python -O, where assert statements are removed.  *)
(***************************************************************************)
EXTENDS Integers, Sequences, FiniteSets, TLC

VARIABLES debug, bar, other, bars, ctor, call

vars == <<debug, bar, other, bars, ctor, call>>

None == <<>>
Some(x) == <<x>>

NoException == "NoException"

\* datetime.strftime of Python 2 refuses years before 1900.
StrftimeMinYear == 1900

(* ---- bounds of the explored inputs ---- *)
MaxDateTime == 2
MaxVolume == 1
MaxAdjClose == 2
MaxCountdown == 2

Prices == {-1, 0, 1, 5, 8, 10}
\* None, one year strftime refuses, and the years from 1900 on.
DateTimeArgs ==
  {None} \cup {Some(StrftimeMinYear - 2 + k) : k \in 1..(MaxDateTime + 1)}
Volumes == 0..MaxVolume
AdjCloses == 0..MaxAdjClose
CountdownArgs == {None} \cup {Some(n) : n \in -1..MaxCountdown}

BarArgs ==
  [date_time : DateTimeArgs, open_ : Prices, high : Prices, low : Prices,
   close : Prices, volume : Volumes, adj_close : AdjCloses]

(* ---- class Bar ---- *)

get_date_time(self) == self.date_time
get_open(self) == self.open
get_high(self) == self.high
get_low(self) == self.low
get_close(self) == self.close
get_volume(self) == self.volume
get_adj_close(self) == self.adj_close
get_session_close(self) == self.session_close
get_bars_until_session_close(self) == self.bars_until_session_close

\* Bar.__str__: get_date_time().strftime(...) raises AttributeError on None
\* and ValueError on a year before 1900; otherwise the result is the fields
\* the format string renders, in its order (adj_close and the session
\* fields are not rendered).
Bar__str__(self) ==
  IF get_date_time(self) = None
  THEN [raised |-> "AttributeError", result |-> None]
  ELSE IF get_date_time(self)[1] < StrftimeMinYear
  THEN [raised |-> "ValueError", result |-> None]
  ELSE [raised |-> NoException,
        result |-> Some(<<get_date_time(self), get_open(self), get_high(self),
                          get_low(self), get_close(self), get_volume(self)>>)]

\* bar_assert: when the assert fails, appends "<msg> (<str(self)>)" to
\* errors; an exception of str(self) leaves the handler and nothing is
\* appended.  With asserts removed nothing is ever appended.
bar_assert(comparison, msg, errors, self) ==
  IF ~debug \/ comparison THEN [raised |-> NoException, errors |-> errors]
  ELSE LET r == Bar__str__(self)
       IN IF r.raised # NoException
          THEN [raised |-> r.raised, errors |-> errors]
          ELSE [raised |-> NoException,
                errors |-> Append(errors, [msg |-> msg, bar |-> r.result[1]])]

\* The next statement of Bar.__init__ runs only if the one before returned.
next_assert(prev, comparison, msg, self) ==
  IF prev.raised # NoException THEN prev
  ELSE bar_assert(comparison, msg, prev.errors, self)

\* Bar.__init__ whose third check repeats high >= low instead of testing
\* high >= close.
Bar__init__RepeatedCheck(date_time, open_, high, low, close, volume, adj_close) ==
  LET self == [date_time |-> date_time, open |-> open_, close |-> close,
               high |-> high, low |-> low, volume |-> volume,
               adj_close |-> adj_close, session_close |-> FALSE,
               bars_until_session_close |-> None]
      e1 == bar_assert(high >= open_, "(H)igh !>= (O)pen.", <<>>, self)
      e2 == next_assert(e1, high >= low, "(H)igh !>= (L)ow.", self)
      e3 == next_assert(e2, high >= low, "(H)igh !>= (C)lose.", self)
      e4 == next_assert(e3, low <= open_, "(L)ow !<= (O)open.", self)
      e5 == next_assert(e4, low <= high, "(L)ow !<= (H)igh.", self)
      e6 == next_assert(e5, low <= close, "(L)ow !<= (C)lose.", self)
  IN IF e6.raised # NoException
     THEN [raised |-> e6.raised, errors |-> <<>>, self |-> None]
     ELSE IF e6.errors # <<>>
     THEN [raised |-> "AssertionError", errors |-> e6.errors, self |-> None]
     ELSE [raised |-> NoException, errors |-> <<>>, self |-> Some(self)]

\* Bar.__init__: stores the fields, runs the six checks and raises one
\* AssertionError carrying every collected entry; an exception escaping a
\* check ends the construction at that check.
Bar__init__(date_time, open_, high, low, close, volume, adj_close) ==
  LET self == [date_time |-> date_time, open |-> open_, close |-> close,
               high |-> high, low |-> low, volume |-> volume,
               adj_close |-> adj_close, session_close |-> FALSE,
               bars_until_session_close |-> None]
      e1 == bar_assert(high >= open_, "(H)igh !>= (O)pen.", <<>>, self)
      e2 == next_assert(e1, high >= low, "(H)igh !>= (L)ow.", self)
      e3 == next_assert(e2, high >= close, "(H)igh !>= (C)lose.", self)
      e4 == next_assert(e3, low <= open_, "(L)ow !<= (O)open.", self)
      e5 == next_assert(e4, low <= high, "(L)ow !<= (H)igh.", self)
      e6 == next_assert(e5, low <= close, "(L)ow !<= (C)lose.", self)
  IN IF e6.raised # NoException
     THEN [raised |-> e6.raised, errors |-> <<>>, self |-> None]
     ELSE IF e6.errors # <<>>
     THEN [raised |-> "AssertionError", errors |-> e6.errors, self |-> None]
     ELSE [raised |-> NoException, errors |-> <<>>, self |-> Some(self)]

Abs(n) == IF n < 0 THEN -n ELSE n

RECURSIVE GCD(_, _)
GCD(m, n) == IF n = 0 THEN m ELSE GCD(n, m % n)

\* The quotient n / float(d) of Python's true division, kept exact as a
\* fraction in lowest terms with a positive denominator; a zero divisor
\* raises ZeroDivisionError.
TrueDiv(n, d) ==
  IF d = 0 THEN [raised |-> "ZeroDivisionError", result |-> None]
  ELSE LET sn == IF d < 0 THEN -n ELSE n
           sd == Abs(d)
           g == GCD(Abs(sn), sd)
       IN [raised |-> NoException,
           result |-> Some([num |-> sn \div g, den |-> sd \div g])]

get_adj_open(self) == TrueDiv(self.adj_close * self.open, self.close)
get_adj_high(self) == TrueDiv(self.adj_close * self.high, self.close)
\* get_adj_low scaling the high instead of the low.
get_adj_lowScalesHigh(self) == TrueDiv(self.adj_close * self.high, self.close)
get_adj_low(self) == TrueDiv(self.adj_close * self.low, self.close)

\* set_session_close resetting the countdown whatever the flag.
set_session_closeAlwaysResets(self, session_close) ==
  [self EXCEPT !.session_close = session_close,
               !.bars_until_session_close = Some(0)]

set_session_close(self, session_close) ==
  LET s1 == [self EXCEPT !.session_close = session_close]
  IN IF session_close THEN [s1 EXCEPT !.bars_until_session_close = Some(0)]
     ELSE s1

set_bars_until_session_close(self, bars_until_session_close) ==
  [self EXCEPT !.bars_until_session_close = bars_until_session_close]

isinstance_Bar(x) == x # None

\* Bar.__eq__ that also compares session_close.
Bar__eq__WithSession(self, o) ==
  IF ~isinstance_Bar(o) THEN FALSE
  ELSE IF get_date_time(self) # get_date_time(o[1]) THEN FALSE
  ELSE IF get_open(self) # get_open(o[1]) THEN FALSE
  ELSE IF get_high(self) # get_high(o[1]) THEN FALSE
  ELSE IF get_low(self) # get_low(o[1]) THEN FALSE
  ELSE IF get_close(self) # get_close(o[1]) THEN FALSE
  ELSE IF get_volume(self) # get_volume(o[1]) THEN FALSE
  ELSE IF get_adj_close(self) # get_adj_close(o[1]) THEN FALSE
  ELSE IF get_session_close(self) # get_session_close(o[1]) THEN FALSE
  ELSE TRUE

\* Bar.__eq__: other is an optional Bar (None is not a Bar).
Bar__eq__(self, o) ==
  IF ~isinstance_Bar(o) THEN FALSE
  ELSE IF get_date_time(self) # get_date_time(o[1]) THEN FALSE
  ELSE IF get_open(self) # get_open(o[1]) THEN FALSE
  ELSE IF get_high(self) # get_high(o[1]) THEN FALSE
  ELSE IF get_low(self) # get_low(o[1]) THEN FALSE
  ELSE IF get_close(self) # get_close(o[1]) THEN FALSE
  ELSE IF get_volume(self) # get_volume(o[1]) THEN FALSE
  ELSE IF get_adj_close(self) # get_adj_close(o[1]) THEN FALSE
  ELSE TRUE

Bar__ne__(self, o) == ~Bar__eq__(self, o)

(* ---- one Bar: construction, accessors, rendering ---- *)

NoCall == [op |-> "none", args |-> None, raised |-> NoException, result |-> None]

Returned(op, args, result) ==
  [op |-> op, args |-> args, raised |-> NoException, result |-> result]

Init ==
  /\ debug \in BOOLEAN
  /\ bar = None
  /\ other = None
  /\ bars = None
  /\ ctor = None
  /\ call = NoCall

\* b = Bar(...), the one construction attempt of the object's life: binds
\* the object when the constructor returns, leaves it unbound when the
\* constructor raises.
Construct(Args) ==
  /\ bar = None
  /\ call = NoCall
  /\ \E a \in Args :
       LET r == Bar__init__(a.date_time, a.open_, a.high, a.low, a.close,
                            a.volume, a.adj_close)
       IN /\ bar' = r.self
          /\ ctor' = IF r.raised = NoException THEN Some(a) ELSE None
          /\ call' = [op |-> "Bar", args |-> Some(a), raised |-> r.raised,
                      result |-> r.errors]
  /\ UNCHANGED <<debug, other, bars>>

Getter(op, value) ==
  /\ call' = Returned(op, None, value)
  /\ UNCHANGED <<debug, bar, other, bars, ctor>>

GetDateTime == bar # None /\ Getter("get_date_time", Some(get_date_time(bar[1])))
GetOpen == bar # None /\ Getter("get_open", Some(get_open(bar[1])))
GetHigh == bar # None /\ Getter("get_high", Some(get_high(bar[1])))
GetLow == bar # None /\ Getter("get_low", Some(get_low(bar[1])))
GetClose == bar # None /\ Getter("get_close", Some(get_close(bar[1])))
GetVolume == bar # None /\ Getter("get_volume", Some(get_volume(bar[1])))
GetAdjClose == bar # None /\ Getter("get_adj_close", Some(get_adj_close(bar[1])))
GetSessionClose ==
  bar # None /\ Getter("get_session_close", Some(get_session_close(bar[1])))
GetBarsUntilSessionClose ==
  bar # None /\ Getter("get_bars_until_session_close",
                       get_bars_until_session_close(bar[1]))

Derived(op, r) ==
  /\ call' = [op |-> op, args |-> None, raised |-> r.raised, result |-> r.result]
  /\ UNCHANGED <<debug, bar, other, bars, ctor>>

\* str(bar)
Str == bar # None /\ Derived("__str__", Bar__str__(bar[1]))

GetAdjOpen == bar # None /\ Derived("get_adj_open", get_adj_open(bar[1]))
GetAdjHigh == bar # None /\ Derived("get_adj_high", get_adj_high(bar[1]))
GetAdjLow == bar # None /\ Derived("get_adj_low", get_adj_low(bar[1]))

SetSessionClose(flag) ==
  /\ bar # None
  /\ bar' = Some(set_session_close(bar[1], flag))
  /\ call' = Returned("set_session_close", Some(flag), None)
  /\ UNCHANGED <<debug, other, bars, ctor>>

SetBarsUntilSessionClose(n) ==
  /\ bar # None
  /\ bar' = Some(set_bars_until_session_close(bar[1], n))
  /\ call' = Returned("set_bars_until_session_close", Some(n), None)
  /\ UNCHANGED <<debug, other, bars, ctor>>

Next ==
  \/ Construct(BarArgs)
  \/ GetDateTime
  \/ GetOpen
  \/ GetHigh
  \/ GetLow
  \/ GetClose
  \/ GetVolume
  \/ GetAdjClose
  \/ Str

Spec == Init /\ [][Next]_vars

(* ---- one Bar: session metadata and derived prices ---- *)

SessionArgs ==
  [date_time : {Some(StrftimeMinYear)}, open_ : {-1, 0, 1}, high : {-1, 0, 1},
   low : {-1, 0, 1}, close : {-1, 0, 1}, volume : {0}, adj_close : AdjCloses]

NextSession ==
  \/ Construct(SessionArgs)
  \/ GetSessionClose
  \/ GetBarsUntilSessionClose
  \/ GetAdjOpen
  \/ GetAdjHigh
  \/ GetAdjLow
  \/ \E flag \in BOOLEAN : SetSessionClose(flag)
  \/ \E n \in CountdownArgs : SetBarsUntilSessionClose(n)

SpecSession == Init /\ [][NextSession]_vars

(* ---- two Bars: comparison ---- *)

EqBarArgs ==
  [date_time : {Some(StrftimeMinYear), Some(StrftimeMinYear + 1)},
   open_ : {0, 1}, high : {0, 1}, low : {0, 1},
   close : {0, 1}, volume : {0, 1}, adj_close : {0, 1}]
EqCountdownArgs == {None, Some(0), Some(1)}

\* The Bar objects the constructor returns for the arguments in Args.
Constructed(Args) ==
  {r.self : r \in {q \in {Bar__init__(a.date_time, a.open_, a.high, a.low,
                                      a.close, a.volume, a.adj_close) :
                          a \in Args} : q.raised = NoException}}

InitEq ==
  /\ debug = TRUE
  /\ bar \in Constructed(EqBarArgs)
  /\ other \in Constructed(EqBarArgs) \cup {None}
  /\ bars = None
  /\ ctor = None
  /\ call = NoCall

OtherSetSessionClose(flag) ==
  /\ other # None
  /\ other' = Some(set_session_close(other[1], flag))
  /\ call' = Returned("set_session_close", Some(flag), None)
  /\ UNCHANGED <<debug, bar, bars, ctor>>

OtherSetBarsUntilSessionClose(n) ==
  /\ other # None
  /\ other' = Some(set_bars_until_session_close(other[1], n))
  /\ call' = Returned("set_bars_until_session_close", Some(n), None)
  /\ UNCHANGED <<debug, bar, bars, ctor>>

\* bar == other
Eq ==
  /\ bar # None
  /\ call' = Returned("__eq__", None, Some(Bar__eq__(bar[1], other)))
  /\ UNCHANGED <<debug, bar, other, bars, ctor>>

\* bar != other
Ne ==
  /\ bar # None
  /\ call' = Returned("__ne__", None, Some(Bar__ne__(bar[1], other)))
  /\ UNCHANGED <<debug, bar, other, bars, ctor>>

NextEq ==
  \/ \E flag \in BOOLEAN : SetSessionClose(flag)
  \/ \E n \in EqCountdownArgs : SetBarsUntilSessionClose(n)
  \/ \E flag \in BOOLEAN : OtherSetSessionClose(flag)
  \/ \E n \in EqCountdownArgs : OtherSetBarsUntilSessionClose(n)
  \/ Eq
  \/ Ne

SpecEq == InitEq /\ [][NextEq]_vars

(* ---- class Bars ---- *)

\* A Python dict is the sequence of its <<key, value>> items in the
\* (arbitrary but fixed) order in which the dict iterates; keys are unique.
dict_len(d) == Len(d)
dict_contains(d, k) == \E i \in 1..Len(d) : d[i][1] = k
dict_value(d, k) == d[CHOOSE i \in 1..Len(d) : d[i][1] = k][2]
dict_keys(d) == [i \in 1..Len(d) |-> d[i][1]]
dict_get(d, k, default) == IF dict_contains(d, k) THEN Some(dict_value(d, k)) ELSE default
dict_getitem(d, k) ==
  IF dict_contains(d, k)
  THEN [raised |-> NoException, result |-> Some(dict_value(d, k))]
  ELSE [raised |-> "KeyError", result |-> None]

\* The loop of Bars.__init__ over bar_dict.iteritems(), from item i on.
\* first_date_time is the timestamp itself, so the test "is None" is also
\* true after an item whose Bar has date_time None.
RECURSIVE sync_check(_, _, _, _)
sync_check(bar_dict, i, first_date_time, first_symbol) ==
  IF i > Len(bar_dict)
  THEN [raised |-> NoException, message |-> None,
        first_date_time |-> first_date_time]
  ELSE LET symbol == bar_dict[i][1]
           current_bar == bar_dict[i][2]
       IN IF first_date_time = None
          THEN sync_check(bar_dict, i + 1, get_date_time(current_bar),
                          Some(symbol))
          ELSE IF get_date_time(current_bar) # first_date_time
          THEN [raised |-> "Exception",
                message |-> Some([text |-> "Bar data times are not in sync.",
                                  symbol |-> symbol,
                                  date_time |-> get_date_time(current_bar),
                                  first_symbol |-> first_symbol[1],
                                  first_date_time |-> first_date_time]),
                first_date_time |-> first_date_time]
          ELSE sync_check(bar_dict, i + 1, first_date_time, first_symbol)

Bars__init__(bar_dict) ==
  IF dict_len(bar_dict) = 0
  THEN [raised |-> "Exception",
        message |-> Some([text |-> "No bars supplied"]), self |-> None]
  ELSE LET r == sync_check(bar_dict, 1, None, None)
       IN IF r.raised # NoException
          THEN [raised |-> r.raised, message |-> r.message, self |-> None]
          ELSE [raised |-> NoException, message |-> None,
                self |-> Some([bar_dict |-> bar_dict,
                               date_time |-> r.first_date_time])]

\* Each method returns the exception raised, the value returned and the
\* object as the call leaves it.

\* Bars.__getitem__ written with dict.pop: a found item leaves the dict.
Bars__getitem__Pops(self, symbol) ==
  LET r == dict_getitem(self.bar_dict, symbol)
  IN [raised |-> r.raised, result |-> r.result,
      self |-> [self EXCEPT !.bar_dict =
                  SelectSeq(self.bar_dict, LAMBDA item : item[1] # symbol)]]

Bars__getitem__(self, symbol) ==
  LET r == dict_getitem(self.bar_dict, symbol)
  IN [raised |-> r.raised, result |-> r.result, self |-> self]

Bars__contains__(self, symbol) ==
  [raised |-> NoException, result |-> Some(dict_contains(self.bar_dict, symbol)),
   self |-> self]

Bars_get_symbols(self) ==
  [raised |-> NoException, result |-> Some(dict_keys(self.bar_dict)),
   self |-> self]

Bars_get_date_time(self) ==
  [raised |-> NoException, result |-> Some(self.date_time), self |-> self]

\* Bars.get_bar written with an indexed lookup: an absent symbol raises.
Bars_get_barIndexes(self, symbol) ==
  LET r == dict_getitem(self.bar_dict, symbol)
  IN [raised |-> r.raised, result |-> r.result, self |-> self]

Bars_get_bar(self, symbol) ==
  [raised |-> NoException, result |-> dict_get(self.bar_dict, symbol, None),
   self |-> self]

(* ---- one Bars: state machine ---- *)

Symbols == {"AAPL", "MSFT", "GOOG"}

\* The Bars put into a mapping: every timestamp and volume, prices fixed.
PoolArgs ==
  [date_time : DateTimeArgs, open_ : {1}, high : {1}, low : {1}, close : {1},
   volume : Volumes, adj_close : {1}]
BarPool == {b[1] : b \in Constructed(PoolArgs)}

\* Every dict of at most three symbols, in every iteration order.
BarDicts ==
  {d \in UNION {[1..n -> Symbols \X BarPool] : n \in 0..Cardinality(Symbols)} :
     \A i, j \in 1..Len(d) : i # j => d[i][1] # d[j][1]}

InitBars ==
  /\ debug = TRUE
  /\ bar = None
  /\ other = None
  /\ bars = None
  /\ ctor = None
  /\ call = NoCall

\* bs = Bars(bar_dict), the one construction attempt.
BarsConstruct ==
  /\ bars = None
  /\ call = NoCall
  /\ \E bar_dict \in BarDicts :
       LET r == Bars__init__(bar_dict)
       IN /\ bars' = r.self
          /\ ctor' = Some(bar_dict)
          /\ call' = [op |-> "Bars", args |-> Some(bar_dict),
                      raised |-> r.raised, result |-> r.message]
  /\ UNCHANGED <<debug, bar, other>>

BarsCall(op, args, r) ==
  /\ bars' = Some(r.self)
  /\ call' = [op |-> op, args |-> args, raised |-> r.raised, result |-> r.result]
  /\ UNCHANGED <<debug, bar, other, ctor>>

GetItem(symbol) ==
  bars # None /\ BarsCall("Bars.__getitem__", Some(symbol),
                          Bars__getitem__(bars[1], symbol))
Contains(symbol) ==
  bars # None /\ BarsCall("Bars.__contains__", Some(symbol),
                          Bars__contains__(bars[1], symbol))
GetSymbols ==
  bars # None /\ BarsCall("Bars.get_symbols", None, Bars_get_symbols(bars[1]))
BarsGetDateTime ==
  bars # None /\ BarsCall("Bars.get_date_time", None, Bars_get_date_time(bars[1]))
GetBar(symbol) ==
  bars # None /\ BarsCall("Bars.get_bar", Some(symbol),
                          Bars_get_bar(bars[1], symbol))

NextBars ==
  \/ BarsConstruct
  \/ \E symbol \in Symbols : GetItem(symbol)
  \/ \E symbol \in Symbols : Contains(symbol)
  \/ GetSymbols
  \/ BarsGetDateTime
  \/ \E symbol \in Symbols : GetBar(symbol)

SpecBars == InitBars /\ [][NextBars]_vars

(* ---- properties: Bar construction ---- *)

RuleNames ==
  <<"(H)igh !>= (O)pen.", "(H)igh !>= (L)ow.", "(H)igh !>= (C)lose.",
    "(L)ow !<= (O)open.", "(L)ow !<= (H)igh.", "(L)ow !<= (C)lose.">>

RuleHolds(a) ==
  <<a.high >= a.open_, a.high >= a.low, a.high >= a.close,
    a.low <= a.open_, a.low <= a.high, a.low <= a.close>>

SixRules(a) == \A i \in 1..6 : RuleHolds(a)[i]

Violated(a) ==
  LET idx == SelectSeq(<<1, 2, 3, 4, 5, 6>>, LAMBDA i : ~RuleHolds(a)[i])
  IN [k \in 1..Len(idx) |-> RuleNames[idx[k]]]

Reported(errors) == [k \in 1..Len(errors) |-> errors[k].msg]

\* C1: Bar construction succeeds if and only if all six ordering rules hold;
\* a failed construction produces no Bar; after a successful one each of
\* get_date_time, get_open, get_high, get_low, get_close, get_volume and
\* get_adj_close returns exactly the value passed to the constructor.
C1_ConstructThenRead ==
  /\ call.op = "Bar" =>
       /\ call.raised = NoException <=> SixRules(call.args[1])
       /\ call.raised = NoException <=> bar # None
  /\ bar # None <=> ctor # None
  /\ call.op = "get_date_time" => call.result = Some(ctor[1].date_time)
  /\ call.op = "get_open" => call.result = Some(ctor[1].open_)
  /\ call.op = "get_high" => call.result = Some(ctor[1].high)
  /\ call.op = "get_low" => call.result = Some(ctor[1].low)
  /\ call.op = "get_close" => call.result = Some(ctor[1].close)
  /\ call.op = "get_volume" => call.result = Some(ctor[1].volume)
  /\ call.op = "get_adj_close" => call.result = Some(ctor[1].adj_close)

\* C2: a failed construction raises one error whose entries are exactly the
\* violated conditions, in the order H>=O, H>=L, H>=C, L<=O, L<=H, L<=C,
\* each with the rendering of the attempted bar; all violations are
\* collected, not only the first.
C2_ReportsExactlyViolated ==
  call.op = "Bar" /\ call.raised # NoException =>
    /\ call.raised = "AssertionError"
    /\ Reported(call.result) = Violated(call.args[1])
    /\ \A k \in 1..Len(call.result) :
         call.result[k].bar =
           <<call.args[1].date_time, call.args[1].open_, call.args[1].high,
             call.args[1].low, call.args[1].close, call.args[1].volume>>

IsC3Input(a) == a.open_ = 10 /\ a.high = 5 /\ a.low = 1 /\ a.close = 8

\* C3 as stated, for the validation error: the error raised for
\* Bar(open=10, high=5, low=1, close=8) reports exactly one violation, H>=O.
C3_OnlyHighOpen ==
  call.op = "Bar" /\ IsC3Input(call.args[1])
    /\ call.raised = "AssertionError" =>
      Reported(call.result) = <<"(H)igh !>= (O)pen.">>

\* C3 amended: Bar(open=10, high=5, low=1, close=8) violates two
\* conditions, H>=O and H>=C (high 5 is below close 8 too): it never reports
\* exactly one violation, and every validation error it raises lists
\* exactly these two, in that order, and produces no Bar.
C3_HighOpenAndHighClose ==
  call.op = "Bar" /\ IsC3Input(call.args[1]) =>
    /\ Len(call.result) # 1
    /\ call.raised = "AssertionError" =>
         /\ bar = None
         /\ Reported(call.result) =
              <<"(H)igh !>= (O)pen.", "(H)igh !>= (C)lose.">>

\* The validation error has been raised for that input.
C3_Witness ==
  /\ call.op = "Bar"
  /\ IsC3Input(call.args[1])
  /\ call.raised = "AssertionError"
  /\ Len(call.result) = 2

(* ---- properties: session metadata ---- *)

\* C5: set_session_close(true) leaves session_close = true and
\* bars_until_session_close = 0 whatever the countdown was;
\* set_session_close(false) leaves session_close = false and the countdown
\* as it was before the call.
C5_SessionCloseCoupling ==
  [][call'.op = "set_session_close" =>
       IF call'.args[1]
       THEN /\ bar'[1].session_close = TRUE
            /\ bar'[1].bars_until_session_close = Some(0)
       ELSE /\ bar'[1].session_close = FALSE
            /\ bar'[1].bars_until_session_close =
                 bar[1].bars_until_session_close]_vars

\* set_session_close(false) has returned on a bar whose countdown is 2.
C5_Witness ==
  /\ call.op = "set_session_close"
  /\ call.args = Some(FALSE)
  /\ bar[1].session_close = FALSE
  /\ bar[1].bars_until_session_close = Some(2)

\* C6: in every reachable state of a Bar, bars_until_session_close is
\* either unset or a non-negative integer.
C6_CountdownNonNegative ==
  bar # None =>
    \/ bar[1].bars_until_session_close = None
    \/ bar[1].bars_until_session_close[1] >= 0

(* ---- properties: derived adjusted prices ---- *)

AdjustedAs(raw) ==
  IF ctor[1].close = 0
  THEN call.raised = "ZeroDivisionError" /\ call.result = None
  ELSE /\ call.raised = NoException
       /\ call.result[1].den > 0
       /\ call.result[1].num * ctor[1].close =
            ctor[1].adj_close * raw * call.result[1].den

\* C8: construction accepts close = 0 (with low <= 0 <= high); on a Bar
\* whose close is 0 each of get_adj_open, get_adj_high and get_adj_low
\* raises instead of returning a value, and for close # 0 each returns
\* adj_close * X / close for X = open, high, low.
C8_AdjustedPrices ==
  /\ call.op = "Bar" /\ call.args[1].close = 0 /\ call.args[1].low <= 0
       /\ call.args[1].high >= 0 /\ call.args[1].low <= call.args[1].open_
       /\ call.args[1].open_ <= call.args[1].high
     => call.raised = NoException
  /\ call.op = "get_adj_open" => AdjustedAs(ctor[1].open_)
  /\ call.op = "get_adj_high" => AdjustedAs(ctor[1].high)
  /\ call.op = "get_adj_low" => AdjustedAs(ctor[1].low)

\* get_adj_low has raised on a bar with low < 0 = close < high.
C8_Witness ==
  /\ call.op = "get_adj_low"
  /\ call.raised = "ZeroDivisionError"
  /\ ctor[1].close = 0
  /\ ctor[1].low < 0
  /\ ctor[1].high > 0
  /\ ctor[1].adj_close > 0

(* ---- properties: equality ---- *)

SameFields(x, y) ==
  /\ x.date_time = y.date_time
  /\ x.open = y.open
  /\ x.high = y.high
  /\ x.low = y.low
  /\ x.close = y.close
  /\ x.volume = y.volume
  /\ x.adj_close = y.adj_close

\* C7: two Bars compare equal if and only if their date_time, open, high,
\* low, close, volume and adj_close are all equal, whatever session-mutator
\* calls were made on either of them, and != is the negation of ==.
C7_EqualityIgnoresSession ==
  /\ call.op = "__eq__" /\ other # None =>
       (call.result[1] <=> SameFields(bar[1], other[1]))
  /\ call.op = "__ne__" /\ other # None =>
       (call.result[1] <=> ~SameFields(bar[1], other[1]))

\* Two bars with the same seven fields and different session fields
\* compared equal.
C7_Witness ==
  /\ call.op = "__eq__"
  /\ call.result = Some(TRUE)
  /\ other # None
  /\ bar[1].session_close # other[1].session_close
  /\ bar[1].bars_until_session_close # other[1].bars_until_session_close

(* ---- properties: Bars ---- *)

SameDateTimes(d) ==
  \A i, j \in 1..Len(d) : d[i][2].date_time = d[j][2].date_time

Present(d, s) == \E i \in 1..Len(d) : d[i][1] = s

Supplied(d, s) == CHOOSE b \in BarPool : \E i \in 1..Len(d) : d[i] = <<s, b>>

\* C4: Bars construction succeeds if and only if the mapping is non-empty
\* and all its Bars have the same date_time, in every iteration order; an
\* empty mapping fails with the empty-input error, a mapping with two
\* different date_times fails with the synchronisation error naming two
\* symbols of the mapping whose date_times differ, and after a successful
\* construction get_date_time() is the date_time of every Bar.
C4_SynchronisedConstruction ==
  /\ call.op = "Bars" =>
       LET d == call.args[1]
       IN /\ call.raised = NoException <=> (Len(d) > 0 /\ SameDateTimes(d))
          /\ call.raised = NoException <=> bars # None
          /\ Len(d) = 0 =>
               /\ call.raised = "Exception"
               /\ call.result[1].text = "No bars supplied"
          /\ Len(d) > 0 /\ ~SameDateTimes(d) =>
               /\ call.raised = "Exception"
               /\ call.result[1].text = "Bar data times are not in sync."
               /\ call.result[1].symbol # call.result[1].first_symbol
               /\ Present(d, call.result[1].symbol)
               /\ Present(d, call.result[1].first_symbol)
               /\ call.result[1].date_time =
                    Supplied(d, call.result[1].symbol).date_time
               /\ call.result[1].first_date_time =
                    Supplied(d, call.result[1].first_symbol).date_time
               /\ call.result[1].date_time # call.result[1].first_date_time
  /\ bars # None =>
       \A i \in 1..Len(ctor[1]) :
         Bars_get_date_time(bars[1]).result = Some(ctor[1][i][2].date_time)

\* C9: on a constructed Bars, for a present symbol bars[s] and get_bar(s)
\* return the Bar supplied for s and contains(s) is true; for an absent
\* symbol bars[s] fails with a missing-key error, get_bar(s) returns none
\* without failing and contains(s) is false.
C9_Lookups ==
  bars # None =>
    /\ call.op = "Bars.__getitem__" =>
         IF Present(ctor[1], call.args[1])
         THEN /\ call.raised = NoException
              /\ call.result = Some(Supplied(ctor[1], call.args[1]))
         ELSE call.raised = "KeyError" /\ call.result = None
    /\ call.op = "Bars.get_bar" =>
         /\ call.raised = NoException
         /\ call.result = IF Present(ctor[1], call.args[1])
                          THEN Some(Supplied(ctor[1], call.args[1]))
                          ELSE None
    /\ call.op = "Bars.__contains__" =>
         /\ call.raised = NoException
         /\ call.result = Some(Present(ctor[1], call.args[1]))

\* get_bar returned none for a symbol that is not in a two-symbol Bars.
C9_Witness ==
  /\ bars # None
  /\ Len(ctor[1]) = 2
  /\ call.op = "Bars.get_bar"
  /\ ~Present(ctor[1], call.args[1])
  /\ call.raised = NoException
  /\ call.result = None

\* C10: after any sequence of lookups (failing ones included), get_bar,
\* contains, get_symbols and get_date_time, the symbol-to-Bar mapping and
\* the stored timestamp of a Bars are those established at construction,
\* and get_symbols() and get_date_time() return the same results always.
C10_BarsImmutable ==
  bars # None =>
    /\ bars[1].bar_dict = ctor[1]
    /\ bars[1].date_time = Bars__init__(ctor[1]).self[1].date_time
    /\ call.op = "Bars.get_symbols" =>
         call.result = Some([i \in 1..Len(ctor[1]) |-> ctor[1][i][1]])
    /\ call.op = "Bars.get_date_time" =>
         call.result = Some(Bars__init__(ctor[1]).self[1].date_time)

\* A failing indexed lookup has happened on a constructed Bars.
C10_Witness ==
  /\ bars # None
  /\ call.op = "Bars.__getitem__"
  /\ call.raised = "KeyError"
  /\ bars[1].bar_dict = ctor[1]
====
